---- MODULE Spec2Model ----
(***************************************************************************)
(* A model of rust_car (src/src/main.rs): the f32 vector helpers, the      *)
(* TileLayer projection, the Car integrator and the main loop of run().    *)
(*                                                                         *)
(* f32 values are modelled as binary floating-point numbers <<m, e>>       *)
(* standing for m * 2^e, with the exponent range of f32 (overflow to       *)
(* infinity at 2^128, NaN from inf*0 and inf-inf, round to nearest even)   *)
(* and a mantissa of MantBits bits instead of 24.  There is no signed zero *)
(* and no subnormal range (results below 2^-126 flush to zero).            *)
(***************************************************************************)
EXTENDS Integers, Sequences, FiniteSets, TLC

\* ------------------------------------------------------------------------
\* Bounds of the model
\* ------------------------------------------------------------------------

\* mantissa width of the modelled f32 (the real one has 24 bits)
MantBits == 12

\* ------------------------------------------------------------------------
\* f32 arithmetic
\* ------------------------------------------------------------------------

MantTop == 2^MantBits
MantLow == 2^(MantBits - 1)
ExpMax == 128 - MantBits
ExpMin == (0 - 126) - (MantBits - 1)
ExpInf == ExpMax + 1

FZero == <<0, 0>>
FNaN == <<0, ExpInf>>
FInf(s) == <<s, ExpInf>>

IsNaN(a) == a = FNaN
IsInf(a) == a[2] = ExpInf /\ a[1] # 0
IsFinite(a) == a[2] # ExpInf

Abs(n) == IF n < 0 THEN 0 - n ELSE n
Sgn(n) == IF n < 0 THEN 0 - 1 ELSE 1

RECURSIVE BitLen(_)
BitLen(n) == IF n = 0 THEN 0 ELSE 1 + BitLen(n \div 2)

\* overflow to infinity, underflow to zero
FRange(s, m, e) ==
    IF e > ExpMax THEN FInf(s)
    ELSE IF e < ExpMin THEN FZero
    ELSE <<s * m, e>>

\* the float nearest to s * n * 2^e (ties to even), n >= 0
FPack(s, n, e) ==
    IF n = 0 THEN FZero
    ELSE LET k == BitLen(n) - MantBits
         IN IF k <= 0 THEN FRange(s, n * 2^(0 - k), e + k)
            ELSE LET q == n \div 2^k
                     r == n % 2^k
                     half == 2^(k - 1)
                     q1 == IF r > half \/ (r = half /\ q % 2 = 1) THEN q + 1 ELSE q
                 IN IF q1 = MantTop THEN FRange(s, MantLow, e + k + 1)
                    ELSE FRange(s, q1, e + k)

FromInt(n) == FPack(Sgn(n), Abs(n), 0)

FNeg(a) == <<0 - a[1], a[2]>>

FMul(a, b) ==
    IF IsNaN(a) \/ IsNaN(b) THEN FNaN
    ELSE IF IsInf(a) \/ IsInf(b)
         THEN IF a[1] = 0 \/ b[1] = 0 THEN FNaN ELSE FInf(Sgn(a[1]) * Sgn(b[1]))
    ELSE FPack(Sgn(a[1]) * Sgn(b[1]), Abs(a[1]) * Abs(b[1]), a[2] + b[2])

FAdd(a, b) ==
    IF IsNaN(a) \/ IsNaN(b) THEN FNaN
    ELSE IF IsInf(a) THEN (IF IsInf(b) /\ b # a THEN FNaN ELSE a)
    ELSE IF IsInf(b) THEN b
    ELSE IF a[1] = 0 THEN b
    ELSE IF b[1] = 0 THEN a
    ELSE LET hi == IF a[2] >= b[2] THEN a ELSE b
             lo == IF a[2] >= b[2] THEN b ELSE a
             d == hi[2] - lo[2]
         IN IF d > MantBits + 1 THEN hi
            ELSE LET sum == hi[1] * 2^d + lo[1]
                 IN FPack(Sgn(sum), Abs(sum), lo[2])

FSub(a, b) == FAdd(a, FNeg(b))

FDiv(a, b) ==
    IF IsNaN(a) \/ IsNaN(b) THEN FNaN
    ELSE IF IsInf(a) THEN (IF IsInf(b) THEN FNaN ELSE FInf(Sgn(a[1]) * Sgn(b[1])))
    ELSE IF IsInf(b) THEN FZero
    ELSE IF b[1] = 0 THEN (IF a[1] = 0 THEN FNaN ELSE FInf(Sgn(a[1])))
    ELSE LET n == Abs(a[1]) * 2^16
             q == n \div Abs(b[1])
             r == n % Abs(b[1])
         IN FPack(Sgn(a[1]) * Sgn(b[1]), 2 * q + (IF r = 0 THEN 0 ELSE 1),
                  a[2] - b[2] - 17)

\* the largest q in lo..hi with q * q <= n
RECURSIVE ISqrt(_, _, _)
ISqrt(n, lo, hi) ==
    IF lo >= hi THEN lo
    ELSE LET mid == (lo + hi + 1) \div 2
         IN IF mid * mid <= n THEN ISqrt(n, mid, hi) ELSE ISqrt(n, lo, mid - 1)

FSqrt(a) ==
    IF IsNaN(a) \/ a[1] < 0 THEN FNaN
    ELSE IF IsInf(a) \/ a[1] = 0 THEN a
    ELSE LET s == IF a[2] % 2 = 0 THEN 16 ELSE 15
             n == a[1] * 2^s
             q == ISqrt(n, 0, 32768)
         IN FPack(1, 2 * q + (IF q * q = n THEN 0 ELSE 1), ((a[2] - s) \div 2) - 1)

\* a < b and a > b of f32: false when either side is NaN
FLt(a, b) == ~IsNaN(a) /\ ~IsNaN(b) /\ a # b /\ FSub(a, b)[1] < 0
FGt(a, b) == FLt(b, a)
FLe(a, b) == ~IsNaN(a) /\ ~IsNaN(b) /\ (a = b \/ FLt(a, b))


\* ------------------------------------------------------------------------
\* cos, sin and atan2 of f32, computed in fixed point (units of 1/TrigOne)
\* ------------------------------------------------------------------------

TrigBits == MantBits + 2
TrigOne == 2^TrigBits
PiFix == (25736 * TrigOne) \div 8192
HalfPi == PiFix \div 2
QuarterPi == PiFix \div 4
TwoPi == 2 * PiFix

\* Taylor polynomials on 0..pi/4
SinPoly(x) ==
    LET x2 == (x * x) \div TrigOne
        x3 == (x2 * x) \div TrigOne
        x5 == (x3 * x2) \div TrigOne
        x7 == (x5 * x2) \div TrigOne
    IN x - (x3 \div 6) + (x5 \div 120) - (x7 \div 5040)

CosPoly(x) ==
    LET x2 == (x * x) \div TrigOne
        x4 == (x2 * x2) \div TrigOne
        x6 == (x4 * x2) \div TrigOne
    IN TrigOne - (x2 \div 2) + (x4 \div 24) - (x6 \div 720)

\* sine on 0..pi/2
SinQ(r) == IF r <= QuarterPi THEN SinPoly(r) ELSE CosPoly(HalfPi - r)

SinFix(t) ==
    LET r == t % TwoPi
    IN IF r <= HalfPi THEN SinQ(r)
       ELSE IF r <= PiFix THEN SinQ(PiFix - r)
       ELSE IF r <= PiFix + HalfPi THEN 0 - SinQ(r - PiFix)
       ELSE 0 - SinQ(TwoPi - r)

CosFix(t) == SinFix(t + HalfPi)

\* a finite float (an angle or a ratio, of magnitude below 16) in fixed point
ToFix(a) ==
    LET k == a[2] + TrigBits
    IN IF k >= 0 THEN a[1] * 2^k
       ELSE IF 0 - k > 30 THEN 0
       ELSE (a[1] + 2^((0 - k) - 1)) \div 2^(0 - k)

FromFix(v) == FPack(Sgn(v), Abs(v), 0 - TrigBits)

FCos(a) == IF ~IsFinite(a) THEN FNaN ELSE FromFix(CosFix(ToFix(a)))
FSin(a) == IF ~IsFinite(a) THEN FNaN ELSE FromFix(SinFix(ToFix(a)))

\* the largest t in lo..hi with tan(t) <= z / TrigOne
RECURSIVE AtanFix(_, _, _)
AtanFix(z, lo, hi) ==
    IF lo >= hi THEN lo
    ELSE LET mid == (lo + hi + 1) \div 2
         IN IF SinPoly(mid) * TrigOne <= z * CosPoly(mid)
            THEN AtanFix(z, mid, hi)
            ELSE AtanFix(z, lo, mid - 1)

\* y.atan2(x)
FAtan2(y, x) ==
    IF IsNaN(y) \/ IsNaN(x) THEN FNaN
    ELSE LET yy == IF IsInf(y) THEN FromInt(y[1]) ELSE IF IsInf(x) THEN FZero ELSE y
             xx == IF IsInf(x) THEN FromInt(x[1]) ELSE IF IsInf(y) THEN FZero ELSE x
             ay == <<Abs(yy[1]), yy[2]>>
             ax == <<Abs(xx[1]), xx[2]>>
             steep == FLt(ax, ay)
             z == ToFix(IF steep THEN FDiv(ax, ay) ELSE FDiv(ay, ax))
             base == AtanFix(z, 0, QuarterPi)
             oct == IF steep THEN HalfPi - base ELSE base
             half == IF xx[1] < 0 THEN PiFix - oct ELSE oct
         IN IF yy[1] = 0 /\ xx[1] = 0 THEN FZero
            ELSE FromFix(IF yy[1] < 0 THEN 0 - half ELSE half)

\* std::f32::consts::PI
PI == FromFix(PiFix)

\* ------------------------------------------------------------------------
\* helpers of main.rs
\* ------------------------------------------------------------------------

\* Vector2f and its operators
Vec(x, y) == <<x, y>>
VZero == Vec(FZero, FZero)
VAdd(a, b) == Vec(FAdd(a[1], b[1]), FAdd(a[2], b[2]))
VSub(a, b) == Vec(FSub(a[1], b[1]), FSub(a[2], b[2]))
VMul(a, s) == Vec(FMul(a[1], s), FMul(a[2], s))
VDiv(a, s) == Vec(FDiv(a[1], s), FDiv(a[2], s))

d2r(deg) == FMul(FDiv(deg, FromInt(360)), FMul(PI, FromInt(2)))

v2_dot(a, b) ==
    LET x == FMul(a[1], b[1])
        y == FMul(a[2], b[2])
    IN FAdd(x, y)

v2_length(v2) == FSqrt(v2_dot(v2, v2))

v2_angle_to_point(a, b) ==
    LET dis == VSub(a, b)
    IN FAtan2(dis[2], dis[1])

v2_set_rotation(rad) == Vec(FCos(rad), FSin(rad))

v2_rotated(v, by) ==
    LET new_x == FSub(FMul(v[1], FCos(by)), FMul(v[2], FSin(by)))
        new_y == FAdd(FMul(v[1], FSin(by)), FMul(v[2], FCos(by)))
    IN Vec(new_x, new_y)

\* ------------------------------------------------------------------------
\* TileLayer
\* ------------------------------------------------------------------------

track == <<
    0, 0, 0, 0, 0, 0, 0, 0, 0, 0, 0, 149, 185, 185, 185, 185, 185, 185, 131, 0, 0, 202, 94,
    183, 183, 183, 183, 76, 166, 0, 0, 307, 271, 0, 0, 0, 0, 202, 166, 0, 0, 202, 93, 185,
    185, 185, 185, 75, 166, 0, 0, 148, 183, 183, 183, 183, 183, 183, 130, 0, 0, 0, 0, 0, 0,
    0, 0, 0, 0, 0 >>

grass == <<
    102, 281, 281, 281, 281, 281, 281, 281, 281, 84, 30, 70, 70, 70, 70, 70, 70, 70, 70,
    66, 30, 70, 70, 70, 70, 70, 70, 70, 70, 66, 30, 70, 70, 70, 70, 70, 70, 70, 70, 66, 30,
    70, 70, 70, 70, 70, 70, 70, 70, 66, 30, 70, 70, 70, 70, 70, 70, 70, 70, 66, 12, 209,
    209, 209, 209, 209, 209, 209, 209, 317 >>

rows == 7
cols == 10
tile_sheet_cols == 18
\* arrays are indexed from 0 in the source and from 1 here
tile_sheets == <<grass, track>>

\* TileLayer::new(): every info cell is (false, 0, 0, 0, 0)
TileLayer_new == [i \in 1..2 |-> [c \in 1..70 |-> <<FALSE, 0, 0, 0, 0>>]]

\* mutant: the flat index is computed with rows in place of cols
mut_set_up_cell_rows(info, i, x, y) ==
    LET coord == x + rows * y
    IN IF coord \in 0..(Len(tile_sheets[i + 1]) - 1)
       THEN LET num == tile_sheets[i + 1][coord + 1]
            IN IF num <= 0 THEN info
               ELSE LET tx == num % tile_sheet_cols
                        ty == num \div tile_sheet_cols
                    IN [info EXCEPT ![i + 1][coord + 1] = <<TRUE, x, y, tx, ty>>]
       ELSE info

\* mutant: the sheet row is added to the one already stored
mut_set_up_cell_add(info, i, x, y) ==
    LET coord == x + cols * y
    IN IF coord \in 0..(Len(tile_sheets[i + 1]) - 1)
       THEN LET num == tile_sheets[i + 1][coord + 1]
            IN IF num <= 0 THEN info
               ELSE LET tx == num % tile_sheet_cols
                        ty == num \div tile_sheet_cols
                    IN [info EXCEPT ![i + 1][coord + 1] =
                           <<TRUE, x, y, tx, info[i + 1][coord + 1][5] + ty>>]
       ELSE info

\* the body of the innermost loop of set_up for layer i, column x, row y
set_up_cell(info, i, x, y) ==
    LET coord == x + cols * y
    IN IF coord \in 0..(Len(tile_sheets[i + 1]) - 1)
       THEN LET num == tile_sheets[i + 1][coord + 1]
            IN IF num <= 0 THEN info
               ELSE LET tx == num % tile_sheet_cols
                        ty == num \div tile_sheet_cols
                    IN [info EXCEPT ![i + 1][coord + 1] = <<TRUE, x, y, tx, ty>>]
       ELSE info

\* ------------------------------------------------------------------------
\* Car
\* ------------------------------------------------------------------------

Car_new(pos) ==
    [ position |-> pos,
      velocity |-> Vec(FZero, FZero),
      acceleration |-> Vec(FZero, FZero),
      force |-> Vec(FZero, FZero),
      back_wheel |-> Vec(FZero, FZero),
      front_wheel |-> Vec(FZero, FZero),
      axel |-> FromInt(45),
      speed |-> FromInt(750),
      friction |-> FDiv(FromInt(0 - 99), FromInt(100)),
      drag |-> FDiv(FromInt(0 - 55), FromInt(10000)),
      car_angle |-> FZero,
      steer_angle |-> FromInt(75),
      is_moving |-> FALSE,
      is_reversing |-> FALSE,
      is_turning_left |-> FALSE,
      is_turning_right |-> FALSE ]

steering(c, delta) ==
    LET front0 == VAdd(c.position, VMul(v2_set_rotation(c.car_angle), FDiv(c.axel, FromInt(2))))
        back0 == VSub(c.position, VMul(v2_set_rotation(c.car_angle), FDiv(c.axel, FromInt(2))))
        back == VAdd(back0, VMul(c.velocity, delta))
        front == VAdd(front0, VMul(v2_rotated(c.velocity, c.steer_angle), delta))
    IN [c EXCEPT !.car_angle = v2_angle_to_point(front, back),
                 !.front_wheel = front,
                 !.back_wheel = back]

\* mutant: the upper edges wrap at >= in place of >
mut_screen_wrap_ge(c, width, height, buffer) ==
    LET screen_edge == FZero
        x1 == IF ~FLt(c.position[1], FAdd(width, buffer))
              THEN FSub(screen_edge, buffer) ELSE c.position[1]
        x2 == IF FLt(x1, FSub(screen_edge, buffer)) THEN FAdd(width, buffer) ELSE x1
        y1 == IF ~FLt(c.position[2], FAdd(height, buffer))
              THEN FSub(screen_edge, buffer) ELSE c.position[2]
        y2 == IF FLt(y1, FSub(screen_edge, buffer)) THEN FAdd(height, buffer) ELSE y1
    IN [c EXCEPT !.position = Vec(x2, y2)]

\* mutant: the y axis wraps at the width
mut_screen_wrap_width(c, width, height, buffer) ==
    LET screen_edge == FZero
        x1 == IF FGt(c.position[1], FAdd(width, buffer))
              THEN FSub(screen_edge, buffer) ELSE c.position[1]
        x2 == IF FLt(x1, FSub(screen_edge, buffer)) THEN FAdd(width, buffer) ELSE x1
        y1 == IF FGt(c.position[2], FAdd(width, buffer))
              THEN FSub(screen_edge, buffer) ELSE c.position[2]
        y2 == IF FLt(y1, FSub(screen_edge, buffer)) THEN FAdd(width, buffer) ELSE y1
    IN [c EXCEPT !.position = Vec(x2, y2)]

screen_wrap(c, width, height, buffer) ==
    LET screen_edge == FZero
        x1 == IF FGt(c.position[1], FAdd(width, buffer))
              THEN FSub(screen_edge, buffer) ELSE c.position[1]
        x2 == IF FLt(x1, FSub(screen_edge, buffer)) THEN FAdd(width, buffer) ELSE x1
        y1 == IF FGt(c.position[2], FAdd(height, buffer))
              THEN FSub(screen_edge, buffer) ELSE c.position[2]
        y2 == IF FLt(y1, FSub(screen_edge, buffer)) THEN FAdd(height, buffer) ELSE y1
    IN [c EXCEPT !.position = Vec(x2, y2)]

\* mutant: the drag force is left out
mut_update_forces_no_drag(c, delta) ==
    LET speed == v2_length(c.velocity)
        velocity == IF FLt(speed, FromInt(20)) THEN Vec(FZero, FZero) ELSE c.velocity
        f_force0 == VMul(velocity, c.friction)
        f_force == IF FLt(speed, FromInt(100)) THEN VMul(f_force0, FromInt(3)) ELSE f_force0
        force == f_force
        total == VDiv(force, FromInt(1))
    IN [c EXCEPT !.velocity = velocity,
                 !.force = force,
                 !.acceleration = VAdd(c.acceleration, total)]

\* mutant: the friction force points along the velocity
mut_update_forces_push(c, delta) ==
    LET speed == v2_length(c.velocity)
        velocity == IF FLt(speed, FromInt(20)) THEN Vec(FZero, FZero) ELSE c.velocity
        f_force0 == VMul(velocity, FNeg(c.friction))
        d_force == VMul(VMul(velocity, speed), c.drag)
        f_force == IF FLt(speed, FromInt(100)) THEN VMul(f_force0, FromInt(3)) ELSE f_force0
        force == VAdd(f_force, d_force)
        total == VDiv(force, FromInt(1))
    IN [c EXCEPT !.velocity = velocity,
                 !.force = force,
                 !.acceleration = VAdd(c.acceleration, total)]

update_forces(c, delta) ==
    LET speed == v2_length(c.velocity)
        velocity == IF FLt(speed, FromInt(20)) THEN Vec(FZero, FZero) ELSE c.velocity
        f_force0 == VMul(velocity, c.friction)
        d_force == VMul(VMul(velocity, speed), c.drag)
        f_force == IF FLt(speed, FromInt(100)) THEN VMul(f_force0, FromInt(3)) ELSE f_force0
        force == VAdd(f_force, d_force)
        total == VDiv(force, FromInt(1))
    IN [c EXCEPT !.velocity = velocity,
                 !.force = force,
                 !.acceleration = VAdd(c.acceleration, total)]

\* mutant: the right key sets the turn signal in place of adding to it
mut_steer_input_set(c) ==
    LET t0 == FZero
        t1 == IF c.is_turning_left THEN FSub(t0, FromInt(1)) ELSE t0
        t2 == IF c.is_turning_right THEN FromInt(1) ELSE t1
    IN [c EXCEPT !.steer_angle = FMul(t2, d2r(FromInt(15)))]

\* update, lines 309-319: the turn signal and the steering angle
steer_input(c) ==
    LET t0 == FZero
        t1 == IF c.is_turning_left THEN FSub(t0, FromInt(1)) ELSE t0
        t2 == IF c.is_turning_right THEN FAdd(t1, FromInt(1)) ELSE t1
    IN [c EXCEPT !.steer_angle = FMul(t2, d2r(FromInt(15)))]

\* mutant: reverse is resolved first, so the throttle wins
mut_drive_throttle_wins(c) ==
    LET a1 == IF c.is_reversing
              THEN VAdd(Vec(FromInt(1), FZero),
                        VMul(v2_set_rotation(c.car_angle), FromInt(0 - 600)))
              ELSE Vec(FZero, FZero)
        a2 == IF c.is_moving THEN VMul(v2_set_rotation(c.car_angle), c.speed) ELSE a1
    IN [c EXCEPT !.acceleration = a2]

\* update, lines 321-329: the drive acceleration
drive(c) ==
    LET a1 == IF c.is_moving THEN VMul(v2_set_rotation(c.car_angle), c.speed)
              ELSE Vec(FZero, FZero)
        a2 == IF c.is_reversing
              THEN VAdd(Vec(FromInt(1), FZero),
                        VMul(v2_set_rotation(c.car_angle), FromInt(0 - 600)))
              ELSE a1
    IN [c EXCEPT !.acceleration = a2]

\* update, lines 337-339: the integration step
integrate(c, dt) ==
    LET velocity == VAdd(c.velocity, VMul(c.acceleration, dt))
        position == VAdd(c.position, VMul(velocity, dt))
    IN [c EXCEPT !.velocity = velocity,
                 !.position = position,
                 !.acceleration = VMul(c.acceleration, FZero)]

update(c, dt) ==
    integrate(
        screen_wrap(
            update_forces(steering(drive(steer_input(c)), dt), dt),
            FromInt(1280), FromInt(896), FromInt(25)),
        dt)

\* ------------------------------------------------------------------------
\* State
\* ------------------------------------------------------------------------

\* more bounds of the model
\* loop iterations of run() explored
MaxFrames == 2
\* length, in frame periods, of a stalled loop iteration
StallTicks == 30
\* calls of set_up explored
MaxSetUps == 2
\* updates of a car at rest explored
MaxRestTicks == 3
\* updates with the throttle held
TickLimit == 1000
\* updates with the throttle held and stalled iterations
MaxLagTicks == 8
\* updates and key events before the car is left to coast
DriveTicks == 6
MaxKeys == 1
\* updates within which a coasting car has to stop
CoastLimit == 40

\* window.set_framerate_limit(30): time is counted in frame periods
FrameRate == 30

VARIABLES
    car,                \* the Car of run()
    tile_sheets_info,   \* TileLayer.tile_sheets_info (<<>> where the layer is left out)
    tl_i, tl_x, tl_y,   \* the loop variables i, x, y of set_up
    is_paused,          \* run(): is_paused
    window_open,        \* run(): window.is_open()
    clock,              \* run(): the time at which the Clock was last restarted
    now,                \* the current time
    pc,                 \* "set_up" inside TileLayer::set_up, "loop" in the main loop, "done"
    frames,             \* loop iterations so far
    updates,            \* calls of Car::update so far
    passes,             \* complete calls of set_up so far
    keys,               \* key events so far
    phase,              \* "drive" or "coast"
    coasted,            \* updates since the car was left to coast, up to CoastLimit
    h_op,               \* the last operation applied to the car
    h_pre,              \* the car when that operation began
    h_dt,               \* the dt passed to the last Car::update
    h_drive,            \* acceleration after lines 321-329 of the last Car::update
    h_args,             \* the arguments of the last screen_wrap call
    h_paused_for,       \* time spent in the paused iterations up to the last unpaused one
    h_info_first,       \* tile_sheets_info after the first call of set_up
    h_pos0,             \* the position the car was created at
    h_release_speed     \* length(velocity) when the car was left to coast

tile_vars == <<tile_sheets_info, tl_i, tl_x, tl_y, passes, h_info_first>>
loop_vars == <<is_paused, window_open, clock, now, frames, h_paused_for>>
car_hist == <<h_op, h_pre, h_dt, h_drive>>
vars == <<car, tile_vars, loop_vars, pc, updates, keys, phase, coasted, car_hist, h_args,
          h_pos0, h_release_speed>>

\* Time::as_seconds of a time in frame periods
as_seconds(t) == FDiv(FromInt(t), FromInt(FrameRate))

FrameTimes == {1, StallTicks}

Keys == {"W", "A", "D", "S"}

\* the state when the main loop is entered, with the car created at pos
\* and the tile layer info
InitAt(pos, info) ==
    /\ car = Car_new(pos)
    /\ tile_sheets_info = info
    /\ tl_i = 0 /\ tl_x = 0 /\ tl_y = 0
    /\ is_paused = FALSE
    /\ window_open = TRUE
    /\ clock = 0
    /\ now = 0
    /\ frames = 0
    /\ updates = 0
    /\ passes = 0
    /\ keys = 0
    /\ phase = "drive"
    /\ coasted = 0
    /\ h_op = "new"
    /\ h_pre = Car_new(pos)
    /\ h_dt = FZero
    /\ h_drive = Vec(FZero, FZero)
    /\ h_args = <<FZero, FZero, FZero>>
    /\ h_paused_for = 0
    /\ h_info_first = info
    /\ h_pos0 = pos
    /\ h_release_speed = FZero

\* run(): Car::new(Vector2f::new(100.0, 100.0))
StartPos == Vec(FromInt(100), FromInt(100))

\* ------------------------------------------------------------------------
\* run(): the main loop
\* ------------------------------------------------------------------------

\* Event::KeyPressed of a car key that is up (a repeated press changes nothing)
KeyPressed(k) ==
    /\ k = "W" => ~car.is_moving
    /\ k = "A" => ~car.is_turning_left
    /\ k = "D" => ~car.is_turning_right
    /\ k = "S" => ~car.is_reversing
    /\ car' = CASE k = "W" -> [car EXCEPT !.is_moving = TRUE]
                [] k = "A" -> [car EXCEPT !.is_turning_left = TRUE]
                [] k = "D" -> [car EXCEPT !.is_turning_right = TRUE]
                [] k = "S" -> [car EXCEPT !.is_reversing = TRUE]

\* Event::KeyReleased of a car key that is down
KeyReleased(k) ==
    /\ k = "W" => car.is_moving
    /\ k = "A" => car.is_turning_left
    /\ k = "D" => car.is_turning_right
    /\ k = "S" => car.is_reversing
    /\ car' = CASE k = "W" -> [car EXCEPT !.is_moving = FALSE]
                [] k = "A" -> [car EXCEPT !.is_turning_left = FALSE]
                [] k = "D" -> [car EXCEPT !.is_turning_right = FALSE]
                [] k = "S" -> [car EXCEPT !.is_reversing = FALSE]

\* a Car::update(dt) and its record
Step(dt) ==
    /\ car' = update(car, dt)
    /\ h_op' = "update"
    /\ h_pre' = car
    /\ h_dt' = dt
    /\ h_drive' = drive(steer_input(car)).acceleration

PollKeyPressed ==
    /\ pc = "loop"
    /\ \E k \in Keys : KeyPressed(k)
    /\ UNCHANGED <<tile_vars, loop_vars, pc, updates, keys, phase, coasted, car_hist, h_args,
                   h_pos0, h_release_speed>>

PollKeyReleased ==
    /\ pc = "loop"
    /\ \E k \in Keys : KeyReleased(k)
    /\ UNCHANGED <<tile_vars, loop_vars, pc, updates, keys, phase, coasted, car_hist, h_args,
                   h_pos0, h_release_speed>>

\* Key::P
PollPause ==
    /\ pc = "loop"
    /\ is_paused' = ~is_paused
    /\ UNCHANGED <<car, tile_vars, window_open, clock, now, frames,
                   h_paused_for, pc, updates, keys, phase, coasted, car_hist, h_args,
                   h_pos0, h_release_speed>>

\* Event::Closed and Key::Escape
PollClose ==
    /\ pc = "loop"
    /\ window_open
    /\ window_open' = FALSE
    /\ UNCHANGED <<car, tile_vars, is_paused, clock, now, frames,
                   h_paused_for, pc, updates, keys, phase, coasted, car_hist, h_args,
                   h_pos0, h_release_speed>>

\* lines 414-453: the unpaused branch, reached d after the previous iteration
FrameUpdate(d) ==
    /\ ~is_paused
    /\ clock' = now + d
    /\ Step(as_seconds((now + d) - clock))
    /\ updates' = updates + 1

\* mutant: the paused branch leaves the clock running
mut_FramePaused_no_restart(d) ==
    /\ is_paused
    /\ h_op' = "paused"
    /\ h_pre' = car
    /\ UNCHANGED <<car, clock, updates, h_dt, h_drive>>

\* lines 454-456: the paused branch
FramePaused(d) ==
    /\ is_paused
    /\ clock' = now + d
    /\ h_op' = "paused"
    /\ h_pre' = car
    /\ UNCHANGED <<car, updates, h_dt, h_drive>>

\* the rest of a loop iteration after the events are polled
Frame ==
    /\ pc = "loop"
    /\ frames < MaxFrames
    /\ \E d \in FrameTimes :
          /\ now' = now + d
          /\ h_paused_for' = IF is_paused
                             THEN (IF h_op = "paused" THEN h_paused_for + d ELSE d)
                             ELSE (IF h_op = "paused" THEN h_paused_for ELSE 0)
          /\ (FrameUpdate(d) \/ FramePaused(d))
    /\ frames' = frames + 1
    /\ pc' = IF window_open THEN "loop" ELSE "done"
    /\ UNCHANGED <<tile_vars, is_paused, window_open, keys, phase, coasted, h_args,
                   h_pos0, h_release_speed>>

Init == InitAt(StartPos, <<>>) /\ pc = "loop"

Next ==
    \/ PollKeyPressed
    \/ PollKeyReleased
    \/ PollPause
    \/ PollClose
    \/ Frame

Spec == Init /\ [][Next]_vars

\* ------------------------------------------------------------------------
\* TileLayer::set_up, called any number of times
\* ------------------------------------------------------------------------

\* one iteration of the innermost loop of TileLayer::set_up
SetUpStep ==
    /\ pc = "set_up"
    /\ tile_sheets_info' = set_up_cell(tile_sheets_info, tl_i, tl_x, tl_y)
    /\ LET last_y == tl_y + 1 >= rows
           last_x == tl_x + 1 >= cols
           last_i == tl_i + 1 >= 2
           finished == last_y /\ last_x /\ last_i
       IN /\ tl_y' = IF last_y THEN 0 ELSE tl_y + 1
          /\ tl_x' = IF ~last_y THEN tl_x ELSE IF last_x THEN 0 ELSE tl_x + 1
          /\ tl_i' = IF ~(last_y /\ last_x) THEN tl_i ELSE IF last_i THEN 0 ELSE tl_i + 1
          /\ pc' = IF finished THEN "loop" ELSE "set_up"
          /\ passes' = IF finished THEN passes + 1 ELSE passes
          /\ h_info_first' = IF finished /\ passes = 0
                             THEN set_up_cell(tile_sheets_info, tl_i, tl_x, tl_y)
                             ELSE h_info_first
    /\ UNCHANGED <<car, loop_vars, updates, keys, phase, coasted, car_hist, h_args,
                   h_pos0, h_release_speed>>

\* a further call of set_up
SetUpAgain ==
    /\ pc = "loop"
    /\ passes < MaxSetUps
    /\ pc' = "set_up"
    /\ UNCHANGED <<car, tile_vars, loop_vars, updates, keys, phase, coasted, car_hist, h_args,
                   h_pos0, h_release_speed>>

InitTile == InitAt(StartPos, TileLayer_new) /\ pc = "set_up"

NextTile == SetUpStep \/ SetUpAgain

SpecTile == InitTile /\ [][NextTile]_vars

\* ------------------------------------------------------------------------
\* Car::screen_wrap alone, on cars placed around the edges
\* ------------------------------------------------------------------------

EdgeCoords ==
    { FromInt(0 - 26), FromInt(0 - 25), FromInt(0), FromInt(100),
      FromInt(921), FromInt(922), FromInt(1305), FromInt(1306) }
Widths == {FromInt(1280), FromInt(0)}
Heights == {FromInt(896), FromInt(0)}
Buffers == {FromInt(25), FromInt(0)}

WrapCall ==
    /\ \E w \in Widths, h \in Heights, b \in Buffers :
          /\ car' = screen_wrap(car, w, h, b)
          /\ h_args' = <<w, h, b>>
    /\ h_op' = "wrap"
    /\ h_pre' = car
    /\ UNCHANGED <<tile_vars, loop_vars, pc, updates, keys, phase, coasted, h_dt, h_drive,
                   h_pos0, h_release_speed>>

InitWrap == \E x \in EdgeCoords, y \in EdgeCoords : InitAt(Vec(x, y), <<>>) /\ pc = "loop"

NextWrap == WrapCall

SpecWrap == InitWrap /\ [][NextWrap]_vars

\* ------------------------------------------------------------------------
\* a car that is never driven: only the turn keys and Car::update
\* ------------------------------------------------------------------------

RestTurnKey ==
    /\ \E k \in {"A", "D"} : KeyPressed(k) \/ KeyReleased(k)
    /\ UNCHANGED <<tile_vars, loop_vars, pc, updates, keys, phase, coasted, car_hist, h_args,
                   h_pos0, h_release_speed>>

RestUpdate ==
    /\ updates < MaxRestTicks
    /\ \E d \in FrameTimes \cup {0} : Step(as_seconds(d))
    /\ updates' = updates + 1
    /\ UNCHANGED <<tile_vars, loop_vars, pc, keys, phase, coasted, h_args, h_pos0, h_release_speed>>

InitRest == \E x \in EdgeCoords, y \in EdgeCoords : InitAt(Vec(x, y), <<>>) /\ pc = "loop"

NextRest == RestTurnKey \/ RestUpdate

SpecRest == InitRest /\ [][NextRest]_vars

\* ------------------------------------------------------------------------
\* the throttle held from rest, at a constant dt of one frame period
\* ------------------------------------------------------------------------

PressW ==
    /\ KeyPressed("W")
    /\ UNCHANGED <<tile_vars, loop_vars, pc, updates, keys, phase, coasted, car_hist, h_args,
                   h_pos0, h_release_speed>>

ThrottleTick ==
    /\ car.is_moving
    /\ updates < TickLimit
    /\ Step(as_seconds(1))
    /\ updates' = updates + 1
    /\ UNCHANGED <<tile_vars, loop_vars, pc, keys, phase, coasted, h_args, h_pos0, h_release_speed>>

InitThrottle == InitAt(StartPos, <<>>) /\ pc = "loop"

NextThrottle == PressW \/ ThrottleTick

SpecThrottle == InitThrottle /\ [][NextThrottle]_vars

\* ------------------------------------------------------------------------
\* the throttle held from rest, with loop iterations that may stall
\* ------------------------------------------------------------------------

LagTick ==
    /\ car.is_moving
    /\ updates < MaxLagTicks
    /\ \E d \in FrameTimes : Step(as_seconds(d))
    /\ updates' = updates + 1
    /\ UNCHANGED <<tile_vars, loop_vars, pc, keys, phase, coasted, h_args, h_pos0, h_release_speed>>

NextLag == PressW \/ LagTick

SpecLag == InitThrottle /\ [][NextLag]_vars

\* ------------------------------------------------------------------------
\* driving for a while at one frame period per update, then coasting
\* ------------------------------------------------------------------------

\* a key event while driving
DriveKey ==
    /\ phase = "drive"
    /\ keys < MaxKeys
    /\ \E k \in Keys : KeyPressed(k) \/ KeyReleased(k)
    /\ keys' = keys + 1
    /\ UNCHANGED <<tile_vars, loop_vars, pc, updates, phase, coasted, car_hist, h_args,
                   h_pos0, h_release_speed>>

DriveTick ==
    /\ phase = "drive"
    /\ updates < DriveTicks
    /\ Step(as_seconds(1))
    /\ updates' = updates + 1
    /\ UNCHANGED <<tile_vars, loop_vars, pc, keys, phase, coasted, h_args, h_pos0, h_release_speed>>

\* W and S are released for good (both KeyReleased events, polled together)
Release ==
    /\ phase = "drive"
    /\ car' = [car EXCEPT !.is_moving = FALSE, !.is_reversing = FALSE]
    /\ phase' = "coast"
    /\ h_release_speed' = v2_length(car.velocity)
    /\ UNCHANGED <<tile_vars, loop_vars, pc, updates, keys, coasted, car_hist, h_args, h_pos0>>

\* a turn key while coasting
CoastKey ==
    /\ phase = "coast"
    /\ keys < MaxKeys
    /\ \E k \in {"A", "D"} : KeyPressed(k) \/ KeyReleased(k)
    /\ keys' = keys + 1
    /\ UNCHANGED <<tile_vars, loop_vars, pc, updates, phase, coasted, car_hist, h_args,
                   h_pos0, h_release_speed>>

CoastTick ==
    /\ phase = "coast"
    /\ Step(as_seconds(1))
    /\ coasted' = IF coasted < CoastLimit THEN coasted + 1 ELSE coasted
    /\ UNCHANGED <<tile_vars, loop_vars, pc, updates, keys, phase, h_args,
                   h_pos0, h_release_speed>>

NextCoast == DriveKey \/ DriveTick \/ Release \/ CoastKey \/ CoastTick

SpecCoast == InitThrottle /\ [][NextCoast]_vars

\* ------------------------------------------------------------------------
\* Properties
\* ------------------------------------------------------------------------

\* pos lies within the wrap margins of the 1280 x 896 screen
OnScreen(pos) ==
    /\ FLe(FromInt(0 - 25), pos[1]) /\ FLe(pos[1], FromInt(1305))
    /\ FLe(FromInt(0 - 25), pos[2]) /\ FLe(pos[2], FromInt(921))

\* C1 as stated: a car that is never driven keeps the position it was
\* created at, whatever that position is, through any number of updates.
C1_NoDriftAnywhere == car.position = h_pos0

\* C1, amended: a car that is never driven and was created within the wrap
\* margins (-25 <= x <= 1305, -25 <= y <= 921) keeps its position through
\* any number of updates with finite dt, whatever the turn keys do.
C1_NoDriftOnScreen == OnScreen(h_pos0) => car.position = h_pos0

C1_Witness ==
    /\ updates >= 2
    /\ h_op = "update"
    /\ h_pre.is_turning_left
    /\ h_dt = as_seconds(StallTicks)
    /\ h_pos0 = Vec(FromInt(1305), FromInt(0 - 25))
    /\ car.position = h_pos0

\* what C2 says the info of flat index c (from 0) of layer i (from 1) is
Projection(i, c) ==
    LET num == tile_sheets[i][c + 1]
    IN IF num > 0
       THEN <<TRUE, c % cols, c \div cols, num % tile_sheet_cols, num \div tile_sheet_cols>>
       ELSE <<FALSE, 0, 0, 0, 0>>

\* C2: once set_up has returned, the info of every cell of both layers is the
\* projection of its tile number: (true, c % cols, c / cols, num % 18,
\* num / 18) for a positive number and (false, 0, 0, 0, 0) otherwise; the
\* 149 at index 11 of the track layer gives sheet column 5 and sheet row 8.
C2_ExactProjection ==
    (passes >= 1 /\ pc = "loop") =>
        /\ \A i \in 1..2 : \A c \in 0..(rows * cols - 1) :
              tile_sheets_info[i][c + 1] = Projection(i, c)
        /\ tile_sheets[2][12] = 149
        /\ tile_sheets_info[2][12] = <<TRUE, 1, 1, 5, 8>>

C2_Witness ==
    /\ passes = 1
    /\ pc = "loop"
    /\ tile_sheets_info[2][12] = <<TRUE, 1, 1, 5, 8>>
    /\ tile_sheets_info[2][1] = <<FALSE, 0, 0, 0, 0>>
    /\ tile_sheets_info[1][70] = <<TRUE, 9, 6, 11, 17>>

\* C3: a paused loop iteration does not call Car::update, leaves the car as
\* it is and restarts the clock; so the dt of every Car::update is the time
\* since the previous loop iteration, paused or not.
C3_PauseFreezes ==
    [][ /\ (frames' # frames /\ is_paused) =>
              /\ updates' = updates
              /\ car' = car
              /\ clock' = now'
        /\ (frames' # frames /\ ~is_paused) =>
              /\ updates' = updates + 1
              /\ h_dt' = as_seconds(now' - now) ]_vars

C3_Witness ==
    /\ h_op = "update"
    /\ h_paused_for = StallTicks
    /\ h_dt = as_seconds(1)
    /\ car.velocity # VZero

\* what C5 says the drive acceleration of a car c is
ExpectedDrive(c) ==
    IF c.is_reversing
    THEN VAdd(Vec(FromInt(1), FZero), VMul(v2_set_rotation(c.car_angle), FromInt(0 - 600)))
    ELSE IF c.is_moving THEN VMul(v2_set_rotation(c.car_angle), FromInt(750))
    ELSE VZero

\* C5: the drive acceleration of an update is decided by the flags and the
\* heading at entry alone: (1,0) + rotation * -600 when reversing (also with
\* the throttle held), rotation * speed when only the throttle is held, and
\* (0,0) otherwise.
C5_ReverseWins == h_op = "update" => h_drive = ExpectedDrive(h_pre)

C5_Witness ==
    /\ h_op = "update"
    /\ h_pre.is_moving
    /\ h_pre.is_reversing
    /\ h_drive = Vec(FromInt(0 - 599), FZero)

\* the turn signal C6 describes
TurnSignal(c) ==
    IF c.is_turning_left /\ ~c.is_turning_right THEN 0 - 1
    ELSE IF c.is_turning_right /\ ~c.is_turning_left THEN 1
    ELSE 0

\* C6: after an update steer_angle is the turn signal (-1 for left alone, +1
\* for right alone, 0 for neither or both) times 15 degrees in radians,
\* whatever it was before, and the front wheel was moved with that angle.
C6_SteerInput ==
    h_op = "update" =>
        LET angle == FMul(FromInt(TurnSignal(h_pre)), d2r(FromInt(15)))
            front0 == VAdd(h_pre.position,
                           VMul(v2_set_rotation(h_pre.car_angle), FDiv(FromInt(45), FromInt(2))))
        IN /\ car.steer_angle = angle
           /\ car.steer_angle \in {FNeg(d2r(FromInt(15))), FZero, d2r(FromInt(15))}
           /\ car.front_wheel = VAdd(front0, VMul(v2_rotated(h_pre.velocity, angle), h_dt))

C6_Witness ==
    /\ h_op = "update"
    /\ h_pre.is_turning_left
    /\ h_pre.is_turning_right
    /\ h_pre.steer_angle = FromInt(75)
    /\ car.steer_angle = FZero

\* C7: between updates the acceleration of the car is (0,0).
C7_AccelerationZero == car.acceleration = VZero

\* C4: screen_wrap moves x to -buffer when x > width + buffer, to
\* width + buffer when x < -buffer, and leaves it otherwise; the same for y
\* with the height; nothing else of the car changes.  With 1280, 896 and 25,
\* x = 1306 becomes -25 and x = -26 becomes 1305.
C4_Toroidal ==
    h_op = "wrap" =>
        LET w == h_args[1]
            h == h_args[2]
            b == h_args[3]
            x == h_pre.position[1]
            y == h_pre.position[2]
            ex == IF FGt(x, FAdd(w, b)) THEN FNeg(b)
                  ELSE IF FLt(x, FNeg(b)) THEN FAdd(w, b) ELSE x
            ey == IF FGt(y, FAdd(h, b)) THEN FNeg(b)
                  ELSE IF FLt(y, FNeg(b)) THEN FAdd(h, b) ELSE y
        IN /\ car = [h_pre EXCEPT !.position = Vec(ex, ey)]
           /\ h_args = <<FromInt(1280), FromInt(896), FromInt(25)>> =>
                 /\ x = FromInt(1306) => car.position[1] = FromInt(0 - 25)
                 /\ x = FromInt(0 - 26) => car.position[1] = FromInt(1305)

C4_Witness ==
    /\ h_op = "wrap"
    /\ h_args = <<FromInt(1280), FromInt(896), FromInt(25)>>
    /\ h_pre.position = Vec(FromInt(1306), FromInt(0 - 26))
    /\ car.position = Vec(FromInt(0 - 25), FromInt(921))

\* C8: every call of set_up after the first leaves tile_sheets_info as the
\* first call left it.
C8_Idempotent == passes >= 1 => tile_sheets_info = h_info_first

C8_Witness ==
    /\ passes >= 2
    /\ pc = "loop"
    /\ tile_sheets_info = h_info_first
    /\ tile_sheets_info # TileLayer_new

\* C9: with the throttle held from rest at dt = 1/30, the speed never drops
\* from one update to the next and never exceeds speed (750).
C9_BoundedSpeed ==
    /\ FLe(v2_length(h_pre.velocity), v2_length(car.velocity))
    /\ FLe(v2_length(car.velocity), FromInt(750))

C9_Witness ==
    /\ updates >= 1000
    /\ FLt(FromInt(250), v2_length(car.velocity))

\* C10: once the car is left to coast, its velocity becomes (0,0) after
\* finitely many updates (at most CoastLimit of them) and stays (0,0) in
\* every later update.
C10_ComesToRest ==
    phase = "coast" =>
        /\ coasted >= CoastLimit => car.velocity = VZero
        /\ (coasted >= 1 /\ h_pre.velocity = VZero) => car.velocity = VZero

C10_Witness ==
    /\ phase = "coast"
    /\ coasted >= CoastLimit
    /\ car.velocity = VZero
    /\ FLt(FromInt(100), h_release_speed)

====
